---- MODULE Spec2Model ----
(***************************************************************************)
(* A model of migrate.py, the Bitbucket -> GitHub issue migration script.  *)
(* State: the Bitbucket tracker, the on-disk issue cache, the export       *)
(* document, the GitHub repository, the label memo table and the position  *)
(* of the current run of main().                                           *)
(***************************************************************************)
EXTENDS Integers, Sequences, FiniteSets, TLC

\* ------------------------------------------------------------------ bounds
NumIssues == 2
MaxComments == 3
MaxRuns == 3
MaxPushes == 2

IssueIds == 1..NumIssues
CommentIds == 1..MaxComments

\* ----------------------------------------------------------- small helpers
Range(s) == {s[i] : i \in DOMAIN s}

Perms(S) == {s \in [1..Cardinality(S) -> S] : Range(s) = S}

NoDup(s) == \A i, j \in DOMAIN s : s[i] = s[j] => i = j

RECURSIVE SeqSum(_)
SeqSum(s) == IF s = <<>> THEN 0 ELSE Head(s) + SeqSum(Tail(s))

\* ---------------------------------------------------------------- timestamps
\* A timestamp string 'YYYY-MM-DD HH:MM:SS+00:00' is the tuple of its six
\* zero-padded numeric fields <<Y, M, D, h, m, s>>.
LeapYear(y) == (y % 4 = 0 /\ y % 100 # 0) \/ y % 400 = 0

DaysBeforeMonth(y, m) ==
    LET cum == <<0, 31, 59, 90, 120, 151, 181, 212, 243, 273, 304, 334>>
    IN  cum[m] + (IF m > 2 /\ LeapYear(y) THEN 1 ELSE 0)

DaysBeforeYear(y) ==
    LET p == y - 1 IN p * 365 + (p \div 4) - (p \div 100) + (p \div 400)

\* Day number in the proleptic Gregorian calendar (0001-01-01 is day 1).
Ordinal(ts) == DaysBeforeYear(ts[1]) + DaysBeforeMonth(ts[1], ts[2]) + ts[3]

\* Seconds since 1970-01-01 00:00:00: the chronological order of timestamps.
Seconds(ts) ==
    (((Ordinal(ts) - Ordinal(<<1970, 1, 1>>)) * 24 + ts[4]) * 60 + ts[5]) * 60 + ts[6]

\* time.strptime(s, fmt): the struct_time 9-tuple
\* (tm_year, tm_mon, tm_mday, tm_hour, tm_min, tm_sec, tm_wday, tm_yday, tm_isdst)
strptime(ts) ==
    <<ts[1], ts[2], ts[3], ts[4], ts[5], ts[6],
      (Ordinal(ts) + 6) % 7,
      DaysBeforeMonth(ts[1], ts[2]) + ts[3],
      -1>>

\* Python's tuple comparison a < b: the first differing position decides.
TupleLess(a, b) ==
    \E i \in 1..Len(a) :
        /\ a[i] < b[i]
        /\ \A j \in 1..(i - 1) : a[j] = b[j]

\* --------------------------------------------------------------- the cache
\* One directory per issue id: does it exist, and its files (name -> JSON
\* data).  A file name is [prefix, number]: 'issue.json' or
\* '<prefix><number>.json'.
COMMENT_FILE_PREFIX == "comment-"
ISSUE_FILE_NAME == [prefix |-> "issue.json", number |-> 0]
DELETE_PREFIX == "comments-"

CommentFileName(comment) == [prefix |-> COMMENT_FILE_PREFIX, number |-> comment.number]

\* f.startswith(prefix), for the prefixes 'comment-' and 'comments-': neither
\* is a prefix of the other or of 'issue.json'.
startswith(f, prefix) == f.prefix = prefix

NoDir == [exists |-> FALSE, files |-> <<>>]

\* base_path of a cache made with base_dir None: the path is None.
NonePath == [exists |-> FALSE, files |-> <<>>, none |-> TRUE]
is_None(dir) == "none" \in DOMAIN dir

\* os.path.exists(None) and os.listdir(None) raise TypeError.
os_path_exists_raises(dir) == IF is_None(dir) THEN "TypeError" ELSE ""
os_listdir_raises(dir) == IF is_None(dir) THEN "TypeError" ELSE ""

\* os.listdir(path) as a set of names; the order of the listing is arbitrary.
listdir(dir) == DOMAIN dir.files

\* IssueCache.save: create the directory if absent, (over)write one file.
IssueCache_save(dir, name, data) ==
    [exists |-> TRUE,
     files  |-> [f \in (DOMAIN dir.files) \cup {name} |->
                    IF f = name THEN data ELSE dir.files[f]]]

\* IssueCache.save raises what os.path.exists(path) raises.
IssueCache_save_raises(dir) == os_path_exists_raises(dir)

\* IssueCache.load returns None for the path None, without reading.
IssueCache_load_is_None(dir) == is_None(dir)

\* IssueCache.load raises IOError when the file (or directory) is absent.
IssueCache_load_fails(dir, name) == ~dir.exists \/ name \notin DOMAIN dir.files

IssueCache_load(dir, name) == dir.files[name]

\* IssueCache.delete_comments (os.listdir lists the directory, which exists
\* whenever the pipeline calls this: issue.json was read or written before).
IssueCache_delete_comments(dir) ==
    LET files == {f \in listdir(dir) : startswith(f, DELETE_PREFIX)}
    IN  [dir EXCEPT !.files = [f \in (DOMAIN dir.files) \ files |-> dir.files[f]]]

\* IssueCache.issue (getter)
IssueCache_issue(dir) == IssueCache_load(dir, ISSUE_FILE_NAME)

\* IssueCache.issue (setter)
IssueCache_set_issue(dir, value) == IssueCache_save(dir, ISSUE_FILE_NAME, value)

\* The comparison of IssueCache.changed written with <= in place of <.
changed_nonstrict(cached_ts, incoming_ts) ==
    ~TupleLess(strptime(incoming_ts), strptime(cached_ts))

\* IssueCache.changed on two timestamps: struct_time(cached) < struct_time(incoming)
changed(cached_ts, incoming_ts) ==
    TupleLess(strptime(cached_ts), strptime(incoming_ts))

\* IssueCache.changed: "TypeError" when self.issue is None (subscripting
\* None), "IOError" when issue.json cannot be read.
IssueCache_changed(dir, issue) ==
    IF IssueCache_load_is_None(dir) THEN "TypeError"
    ELSE IF IssueCache_load_fails(dir, ISSUE_FILE_NAME) THEN "IOError"
    ELSE IF changed(IssueCache_issue(dir).utc_last_updated, issue.utc_last_updated)
         THEN "True" ELSE "False"

\* IssueCache.comments (getter): the files whose name starts with the prefix.
CommentFiles(dir) == {f \in listdir(dir) : startswith(f, COMMENT_FILE_PREFIX)}

IssueCache_comments(dir) == {dir.files[f] : f \in CommentFiles(dir)}

\* IssueCache.comments (setter): delete_comments, then save every comment.
RECURSIVE SaveAll(_, _)
SaveAll(dir, comments) ==
    IF comments = <<>> THEN dir
    ELSE SaveAll(IssueCache_save(dir, CommentFileName(Head(comments)), Head(comments)),
                 Tail(comments))

IssueCache_set_comments(dir, comments) ==
    SaveAll(IssueCache_delete_comments(dir), comments)

\* ------------------------------------------------------------- Bitbucket data
Statuses == <<"resolved", "open", "wontfix">>

\* author_info records; the empty record stands for None.
NoAuthor == <<>>
Authors ==
    <<[first_name |-> "Ann", last_name |-> "Lee", username |-> "ann"],
      [first_name |-> "", last_name |-> "", username |-> "bob"],
      NoAuthor>>

\* format_user: the display name, as the list of its parts.
format_user(author_info) ==
    IF DOMAIN author_info = {} THEN <<"Anonymous">>
    ELSE IF author_info.first_name # "" /\ author_info.last_name # ""
         THEN <<author_info.first_name, " ", author_info.last_name>>
    ELSE IF "username" \in DOMAIN author_info
         THEN <<"[", author_info.username, "](http://bitbucket.org/", author_info.username, ")">>
    ELSE <<"None">>

\* The comment records the tracker can hold: comment n was created at second
\* MaxComments + 1 - n, so comment ids do not follow creation time; every
\* third one is a status change with no content.
Contents == <<"first", "second", "">>

RawComment(n) ==
    [comment_id     |-> n,
     utc_created_on |-> <<2013, 1, 1, 0, 0, MaxComments + 1 - n>>,
     content        |-> Contents[((n - 1) % 3) + 1],
     author_info    |-> Authors[((n - 1) % 3) + 1]]

\* The issue timestamps of the pipeline model.
T_OLD == <<2013, 1, 31, 23, 59, 59>>
T_NEW == <<2013, 2, 1, 0, 0, 0>>
TimeStamps == {T_OLD, T_NEW}

\* An issue record as get_issues returns it (no 'formatted' key).
RawIssue(id, ts) ==
    [local_id         |-> id,
     title            |-> id,
     status           |-> Statuses[((id - 1) % 3) + 1],
     content          |-> "text",
     utc_last_updated |-> ts]

\* format_body: the content (plain text here, which clean_body leaves as it
\* is), a rule of 40 dashes and the provenance footer.
format_body(issue) ==
    [content |-> issue.content, rule |-> 40, local_id |-> issue.local_id]

WithFormatted(issue) == issue @@ ("formatted" :> format_body(issue))

\* sorted(result, key=utc_created_on): a stable insertion sort; the keys are
\* strings of one fixed-width format, compared field by field.
RECURSIVE InsertByKey(_, _)
InsertByKey(sorted, c) ==
    IF sorted = <<>> THEN <<c>>
    ELSE IF TupleLess(c.utc_created_on, Head(sorted).utc_created_on)
         THEN <<c>> \o sorted
         ELSE <<Head(sorted)>> \o InsertByKey(Tail(sorted), c)

RECURSIVE SortedByCreation(_)
SortedByCreation(result) ==
    IF result = <<>> THEN <<>>
    ELSE InsertByKey(SortedByCreation(SubSeq(result, 1, Len(result) - 1)),
                     result[Len(result)])

RECURSIVE KeepWithBody(_)
KeepWithBody(ordered) ==
    IF ordered = <<>> THEN <<>>
    ELSE LET comment == Head(ordered)
         IN (IF comment.content # ""
             THEN <<[user       |-> format_user(comment.author_info),
                     created_at |-> comment.utc_created_on,
                     body       |-> comment.content,
                     number     |-> comment.comment_id]>>
             ELSE <<>>) \o KeepWithBody(Tail(ordered))

\* get_comments on the list the tracker returned.
get_comments(result) == KeepWithBody(SortedByCreation(result))

\* ------------------------------------------------------------------- GitHub
\* The repository: its issues in creation order (the number of an issue is
\* its index), its label names, and the requests the running process has
\* made to it, each <<method, argument>>.
EmptyRepo == [issues |-> <<>>, labels |-> {}, calls |-> <<>>]

Called(gh, method, arg) == [gh EXCEPT !.calls = Append(@, <<method, arg>>)]

\* get_label raises GithubException for a name the repository does not have.
get_label_fails(gh, name) == name \notin gh.labels

\* The body of github_label: get_label, and create_label when that raised.
LookupOrCreate(gh, name) ==
    LET asked == Called(gh, "get_label", name)
    IN  IF get_label_fails(gh, name)
        THEN [Called(asked, "create_label", name) EXCEPT !.labels = @ \cup {name}]
        ELSE asked

\* github_label behind @memoize(): the memo table maps a key to a label.
make_key(name) == <<"repo", "-", name>>

\* github_label without the memo table in front of it.
github_label_unmemoized(gh, memo, name) ==
    [gh |-> LookupOrCreate(gh, name), memo |-> memo, label |-> name]

github_label(gh, memo, name) ==
    IF make_key(name) \in DOMAIN memo
    THEN [gh |-> gh, memo |-> memo, label |-> memo[make_key(name)]]
    ELSE [gh    |-> LookupOrCreate(gh, name),
          memo  |-> memo @@ (make_key(name) :> name),
          label |-> name]

\* u'_From {user} on {created_at}_\n\n{body}'.format(**comment)
RenderComment(comment) ==
    [user |-> comment.user, created_at |-> comment.created_at, body |-> comment.body]

\* The loop of add_comments_to_issue with a test that never finds the body.
RECURSIVE PostAll(_, _, _, _)
PostAll(gh, k, bb_comments, existing_comments) ==
    IF bb_comments = <<>> THEN gh
    ELSE LET body == RenderComment(Head(bb_comments))
         IN  PostAll([Called(gh, "create_comment", k) EXCEPT
                         !.issues[k].comments = Append(@, body)],
                     k, Tail(bb_comments), existing_comments)

\* The loop of add_comments_to_issue: existing_comments is read once, before it.
RECURSIVE PostNew(_, _, _, _)
PostNew(gh, k, bb_comments, existing_comments) ==
    IF bb_comments = <<>> THEN gh
    ELSE LET body == RenderComment(Head(bb_comments))
             gh2  == IF body \in existing_comments THEN gh
                     ELSE [Called(gh, "create_comment", k) EXCEPT
                              !.issues[k].comments = Append(@, body)]
         IN  PostNew(gh2, k, Tail(bb_comments), existing_comments)

add_comments_to_issue(gh, github_issue, bb_comments, dry_run) ==
    IF dry_run THEN gh
    ELSE PostNew(Called(gh, "get_comments", github_issue), github_issue, bb_comments,
                 Range(gh.issues[github_issue].comments))

\* The label of push_issue without the test for "resolved".
LabelsForAnyStatus(gh, memo, issue) ==
    github_label(gh, memo, issue.status)

\* The label list push_issue builds (the label lookup included); "none" for
\* the empty list.
LabelsFor(gh, memo, issue) ==
    IF issue.status = "resolved"
    THEN [gh |-> gh, memo |-> memo, label |-> "none"]
    ELSE github_label(gh, memo, issue.status)

\* The block of push_issue under "if not dry_run": labels, create_issue,
\* edit(state='closed'). error is "" or the exception raised; github_issue
\* is the number of the created issue.
CreateIssue(gh, memo, issue) ==
    LET lab == LabelsFor(gh, memo, issue)
        github_labels == IF lab.label = "none" THEN <<>> ELSE <<lab.label>>
    IN  IF "formatted" \notin DOMAIN issue
        THEN [gh |-> lab.gh, memo |-> lab.memo, github_issue |-> 0, error |-> "KeyError"]
        ELSE LET number  == Len(gh.issues) + 1
                 created == [title    |-> issue.title,
                             body     |-> issue.formatted,
                             labels   |-> github_labels,
                             state    |-> "open",
                             edits    |-> <<>>,
                             comments |-> <<>>]
                 made    == [Called(lab.gh, "create_issue", issue.title) EXCEPT
                                !.issues = Append(@, created)]
                 edited  == IF issue.status = "resolved"
                            THEN [Called(made, "edit", number) EXCEPT
                                     !.issues[number].state = "closed",
                                     !.issues[number].edits = Append(@, "closed")]
                            ELSE made
             IN  [gh |-> edited, memo |-> lab.memo, github_issue |-> number, error |-> ""]

\* push_issue without the test of dry_run.
push_issue_live(gh, memo, issue, dry_run, verbose) ==
    CreateIssue(gh, memo, issue)

\* push_issue: github_issue is 0 for None.
push_issue(gh, memo, issue, dry_run, verbose) ==
    IF dry_run
    THEN [gh |-> gh, memo |-> memo, github_issue |-> 0,
          error |-> IF verbose /\ "formatted" \notin DOMAIN issue THEN "KeyError" ELSE ""]
    ELSE CreateIssue(gh, memo, issue)

\* -------------------------------------------------------------------- state
VARIABLES
    bb,       \* the Bitbucket tracker: issue id -> [issue, comments]
    cache,    \* the cache directory: issue id -> directory
    doc,      \* the export document on disk
    github,   \* the GitHub repository
    memo,     \* the memo table of github_label (one per process)
    run,      \* the position of main() in the current run
    probe     \* the arguments and results of the functions applied on their own

vars == <<bb, cache, doc, github, memo, run, probe>>

NoDoc == [kind |-> "absent"]
NoOptions == [infile |-> FALSE, outfile |-> FALSE, dry_run |-> FALSE, verbose |-> FALSE]
NoUnit == [id |-> 0]
IdleRun ==
    [n |-> 0, pc |-> "idle", result |-> "none", options |-> NoOptions,
     todo |-> <<>>, unit |-> NoUnit, from |-> "none", out |-> <<>>, i |-> 0,
     github_issue |-> 0, trace |-> <<>>]
NoProbe == [op |-> "none"]

\* -------------------------------------------- IssueCache.changed on its own
ProbeStamps ==
    {<<y, mo, d, h, mi, s>> :
        y \in {2012, 2013}, mo \in {2, 3}, d \in {1, 28},
        h \in {0, 23}, mi \in {0, 59}, s \in {0, 59}}

InitChanged ==
    /\ bb = <<>>
    /\ \E t1 \in ProbeStamps :
          cache = [id \in {1} |-> IssueCache_set_issue(NoDir, RawIssue(1, t1))]
    /\ doc = NoDoc
    /\ github = EmptyRepo
    /\ memo = <<>>
    /\ run = IdleRun
    /\ \E t2 \in ProbeStamps :
          probe = [op |-> "changed", incoming |-> RawIssue(1, t2), result |-> "none"]

ApplyChanged ==
    /\ probe.op = "changed"
    /\ probe.result = "none"
    /\ probe' = [probe EXCEPT !.result = IssueCache_changed(cache[1], probe.incoming)]
    /\ UNCHANGED <<bb, cache, doc, github, memo, run>>

NextChanged == ApplyChanged

SpecChanged == InitChanged /\ [][NextChanged]_vars

\* C4: with a cache entry of last-modified time T1 and an incoming issue of
\* last-modified time T2, IssueCache.changed returns true exactly when T2 is
\* later than T1 (false when equal, false when earlier).
C4_ChangedIffLater ==
    (probe.op = "changed" /\ probe.result # "none") =>
        LET T1 == IssueCache_issue(cache[1]).utc_last_updated
            T2 == probe.incoming.utc_last_updated
        IN  /\ probe.result \in {"True", "False"}
            /\ (probe.result = "True") <=> (Seconds(T2) > Seconds(T1))

C4_Witness_Equal ==
    /\ probe.op = "changed"
    /\ probe.result = "False"
    /\ IssueCache_issue(cache[1]).utc_last_updated = probe.incoming.utc_last_updated

\* ------------------------------------------------------ clean_body on its own
\* A text is the sequence of its pieces: the fence markers, the percent
\* sign, the line breaks, and pieces of other characters (none of them a
\* brace, a percent sign or a line break).
MaxBody == 5

OPEN == "{{{"
CLOSE == "}}}"
PERCENT == "%"
LF == "\n"
CRLF == "\r\n"
INDENT == "    "
\* The backquote character.
BACKTICK == "backquote"
ESCAPED == "&#37;"

LineBreaks == {LF, CRLF}
Pieces == {"a", PERCENT, OPEN, CLOSE, LF, CRLF}

\* unicode(body).splitlines(): a line ends at a line break; what follows the
\* last line break is a line only if it is not empty.
RECURSIVE SplitFrom(_, _)
SplitFrom(rest, line) ==
    IF rest = <<>> THEN (IF line = <<>> THEN <<>> ELSE <<line>>)
    ELSE IF Head(rest) \in LineBreaks
         THEN <<line>> \o SplitFrom(Tail(rest), <<>>)
         ELSE SplitFrom(Tail(rest), Append(line, Head(rest)))

splitlines(body) == SplitFrom(body, <<>>)

\* "\n".join(lines)
RECURSIVE join(_)
join(lines) ==
    IF lines = <<>> THEN <<>>
    ELSE IF Len(lines) = 1 THEN Head(lines)
    ELSE Head(lines) \o <<LF>> \o join(Tail(lines))

line_startswith(line, marker) == line # <<>> /\ Head(line) = marker
contains(line, marker) == \E i \in DOMAIN line : line[i] = marker

\* line.partition(marker), for a line that contains the marker.
FirstAt(line, marker) ==
    CHOOSE i \in DOMAIN line :
        line[i] = marker /\ \A j \in 1..(i - 1) : line[j] # marker
partition_before(line, marker) == SubSeq(line, 1, FirstAt(line, marker) - 1)
partition_after(line, marker) == SubSeq(line, FirstAt(line, marker) + 1, Len(line))

\* line.replace of either marker by a backquote
Backticked(line) ==
    [i \in DOMAIN line |-> IF line[i] \in {OPEN, CLOSE} THEN BACKTICK ELSE line[i]]

\* content.replace('%', '&#37;') left out.
KeepPercent(content) == content

\* content.replace('%', '&#37;')
EscapePercent(content) ==
    [i \in DOMAIN content |-> IF content[i] = PERCENT THEN ESCAPED ELSE content[i]]

\* The loop body of clean_body with the lines of a block left unindented.
ScanLineUnindented(line, in_block) ==
    IF line_startswith(line, OPEN) \/ line_startswith(line, CLOSE)
    THEN [out      |-> (IF contains(line, OPEN) THEN <<partition_after(line, OPEN)>> ELSE <<>>)
                       \o (IF contains(line, CLOSE) THEN <<partition_before(line, CLOSE)>> ELSE <<>>),
          in_block |-> IF contains(line, CLOSE) THEN FALSE ELSE TRUE]
    ELSE [out      |-> IF in_block THEN <<line>> ELSE <<Backticked(line)>>,
          in_block |-> in_block]

\* The loop body of clean_body: the lines appended for one input line, and
\* in_block afterwards.
ScanLine(line, in_block) ==
    IF line_startswith(line, OPEN) \/ line_startswith(line, CLOSE)
    THEN [out      |-> (IF contains(line, OPEN)
                        THEN <<<<INDENT>> \o partition_after(line, OPEN)>> ELSE <<>>)
                       \o (IF contains(line, CLOSE)
                           THEN <<<<INDENT>> \o partition_before(line, CLOSE)>> ELSE <<>>),
          in_block |-> IF contains(line, CLOSE) THEN FALSE ELSE TRUE]
    ELSE [out      |-> IF in_block THEN <<<<INDENT>> \o line>> ELSE <<Backticked(line)>>,
          in_block |-> in_block]

\* The loop of clean_body: one step per input line.
RECURSIVE Scan(_, _)
Scan(todo, in_block) ==
    IF todo = <<>> THEN <<>>
    ELSE LET step == ScanLine(Head(todo), in_block)
         IN  <<[line |-> Head(todo), was_in_block |-> in_block,
                out |-> step.out, in_block |-> step.in_block]>>
             \o Scan(Tail(todo), step.in_block)

RECURSIVE Appended(_)
Appended(steps) == IF steps = <<>> THEN <<>> ELSE Head(steps).out \o Appended(Tail(steps))

clean_body(body) == EscapePercent(join(Appended(Scan(splitlines(body), FALSE))))

\* "before\n{{{\ncode line\n}}}\nafter"
ExampleBody == <<"before", LF, OPEN, LF, "code line", LF, CLOSE, LF, "after">>

Bodies == UNION {[1..n -> Pieces] : n \in 0..MaxBody} \cup {ExampleBody}

InitClean ==
    /\ bb = <<>>
    /\ cache = <<>>
    /\ doc = NoDoc
    /\ github = EmptyRepo
    /\ memo = <<>>
    /\ run = IdleRun
    /\ \E body \in Bodies :
          probe = [op |-> "clean_body", body |-> body, done |-> FALSE,
                   steps |-> <<>>, content |-> <<>>]

ApplyCleanBody ==
    /\ probe.op = "clean_body"
    /\ ~probe.done
    /\ probe' = [probe EXCEPT !.done = TRUE,
                              !.steps = Scan(splitlines(probe.body), FALSE),
                              !.content = clean_body(probe.body)]
    /\ UNCHANGED <<bb, cache, doc, github, memo, run>>

NextClean == ApplyCleanBody

SpecClean == InitClean /\ [][NextClean]_vars

Cleaned == probe.op = "clean_body" /\ probe.done

\* The fence markers of the lines each stand alone on a line and alternate,
\* an opening marker first.
RECURSIVE Alternate(_, _)
Alternate(lines, open) ==
    IF lines = <<>> THEN TRUE
    ELSE IF Head(lines) = <<OPEN>> THEN ~open /\ Alternate(Tail(lines), TRUE)
    ELSE IF Head(lines) = <<CLOSE>> THEN open /\ Alternate(Tail(lines), FALSE)
    ELSE /\ ~contains(Head(lines), OPEN)
         /\ ~contains(Head(lines), CLOSE)
         /\ Alternate(Tail(lines), open)

\* Line i is a marker line or lies between an opening marker and its closing
\* marker.
Fenced(lines, i) ==
    \/ lines[i] \in {<<OPEN>>, <<CLOSE>>}
    \/ Cardinality({j \in 1..i : lines[j] = <<OPEN>>}) >
           Cardinality({j \in 1..i : lines[j] = <<CLOSE>>})

WithoutMarkers(line) == SelectSeq(line, LAMBDA piece : piece \notin {OPEN, CLOSE})

ExampleHolds ==
    probe.body = ExampleBody =>
        probe.content =
            join(<< <<"before">>, <<INDENT>>, <<INDENT, "code line">>, <<INDENT>>, <<"after">> >>)

\* C13 as stated: the example; and for a body whose fence markers stand alone
\* and alternate, every marker line and every line of a block gives one output
\* line, four spaces and the line without markers, and every other line is
\* emitted unchanged.
C13_FencesIndentedRestUnchanged ==
    Cleaned =>
        /\ ExampleHolds
        /\ LET lines == splitlines(probe.body)
           IN  Alternate(lines, FALSE) =>
                  probe.content =
                      join([i \in DOMAIN lines |->
                               IF Fenced(lines, i)
                               THEN <<INDENT>> \o EscapePercent(WithoutMarkers(lines[i]))
                               ELSE lines[i]])

\* C13 amended: the same, with every other line emitted unchanged but for
\* the percent signs, which are escaped.
C13_FencesIndentedRestEscaped ==
    Cleaned =>
        /\ ExampleHolds
        /\ LET lines == splitlines(probe.body)
           IN  Alternate(lines, FALSE) =>
                  probe.content =
                      join([i \in DOMAIN lines |->
                               IF Fenced(lines, i)
                               THEN <<INDENT>> \o EscapePercent(WithoutMarkers(lines[i]))
                               ELSE EscapePercent(lines[i])])

C13_Witness_FenceAndPercent ==
    /\ Cleaned
    /\ probe.body = <<PERCENT, LF, OPEN, LF, CLOSE>>
    /\ probe.content = <<ESCAPED, LF, INDENT, LF, INDENT>>

NoMarker(body) == ~contains(body, OPEN) /\ ~contains(body, CLOSE)

\* C14 as stated: a body without fence markers comes back with every percent
\* sign escaped and otherwise as it was, line breaks and a trailing line
\* break included; the result has no percent sign.
C14_PlainBodyUnchanged ==
    (Cleaned /\ NoMarker(probe.body)) =>
        /\ probe.content = EscapePercent(probe.body)
        /\ ~contains(probe.content, PERCENT)

\* C14 amended: a body without fence markers comes back as its lines, every
\* percent sign escaped, joined by "\n": every line break becomes "\n" and a
\* trailing line break is dropped; a body whose line breaks are all "\n" and
\* that does not end in one comes back with only its percent signs changed;
\* the result has no percent sign.
C14_PlainBodyLinesRejoined ==
    (Cleaned /\ NoMarker(probe.body)) =>
        LET lines == splitlines(probe.body)
        IN  /\ probe.content = join([i \in DOMAIN lines |-> EscapePercent(lines[i])])
            /\ (/\ ~contains(probe.body, CRLF)
                /\ (probe.body # <<>> => probe.body[Len(probe.body)] # LF)) =>
                   probe.content = EscapePercent(probe.body)
            /\ ~contains(probe.content, PERCENT)

C14_Witness_PercentAndBreak ==
    /\ Cleaned
    /\ probe.body = <<"a", PERCENT, LF, "a", LF>>
    /\ probe.content = <<"a", ESCAPED, LF, "a">>

\* C20: for every input line that begins with a fence marker (also one that
\* begins with the opening marker and contains the closing marker),
\* clean_body emits exactly one line, that line has no fence marker in it,
\* and after a line that contains the closing marker it is out of the block.
C20_BoundaryLineCleaned ==
    Cleaned =>
        \A k \in DOMAIN probe.steps :
            LET step == probe.steps[k]
            IN  (line_startswith(step.line, OPEN) \/ line_startswith(step.line, CLOSE)) =>
                    /\ Len(step.out) = 1
                    /\ \A i \in DOMAIN step.out :
                          ~contains(step.out[i], OPEN) /\ ~contains(step.out[i], CLOSE)
                    /\ contains(step.line, CLOSE) => ~step.in_block

\* ------------------------------------------------------ get_issues on its own
\* The tracker lists its issues 1..n and answers ?start=s with the issues
\* after the first s, at most `limit` of them.
MaxSource == 4
MaxLimit == 2

Listing(n) == [k \in 1..n |-> k]

Page(listing, limit, s) ==
    IF s >= Len(listing) THEN <<>>
    ELSE SubSeq(listing, s + 1, IF s + limit < Len(listing) THEN s + limit ELSE Len(listing))

\* start_id after a page, were it advanced by one per page.
NextStartByOne(start_id, page) == start_id + 1

\* start_id += len(result['issues'])
NextStart(start_id, page) == start_id + Len(page)

RECURSIVE Concat(_)
Concat(pages) == IF pages = <<>> THEN <<>> ELSE Head(pages) \o Concat(Tail(pages))

\* What get_issues gave back: nothing yet, the list it returned, or the
\* exception it raised.
NoResult == [raised |-> "", returned |-> FALSE, issues |-> <<>>]
Returned(issues) == [raised |-> "", returned |-> TRUE, issues |-> issues]
Raised(exception) == [raised |-> exception, returned |-> FALSE, issues |-> <<>>]

InitFetch ==
    /\ bb = <<>>
    /\ cache = <<>>
    /\ doc = NoDoc
    /\ github = EmptyRepo
    /\ memo = <<>>
    /\ run = IdleRun
    /\ \E n \in 0..MaxSource, limit \in 1..MaxLimit, start \in 0..MaxSource :
          probe = [op       |-> "get_issues",
                   listing  |-> Listing(n),
                   limit    |-> limit,
                   start    |-> start,
                   pc       |-> "loop",
                   start_id |-> start,
                   issues   |-> <<>>,
                   requests |-> <<>>,
                   result   |-> NoResult]

\* A request of the loop: the offset asked for, the number of issues held
\* then, and the answer (the page, or the failure).
Request(failed, page) ==
    [start |-> probe.start_id, had |-> Len(probe.issues), failed |-> failed, page |-> page]

\* One turn of the loop that gets a page with issues.
FetchPage ==
    /\ probe.op = "get_issues"
    /\ probe.pc = "loop"
    /\ LET page == Page(probe.listing, probe.limit, probe.start_id)
       IN  /\ page # <<>>
           /\ probe' = [probe EXCEPT !.issues = @ \o page,
                                     !.start_id = NextStart(@, page),
                                     !.requests = Append(@, Request(FALSE, page))]
    /\ UNCHANGED <<bb, cache, doc, github, memo, run>>

\* The turn that gets the empty page: break, return issues.
FetchEmpty ==
    /\ probe.op = "get_issues"
    /\ probe.pc = "loop"
    /\ Page(probe.listing, probe.limit, probe.start_id) = <<>>
    /\ probe' = [probe EXCEPT !.pc = "returned",
                              !.result = Returned(probe.issues),
                              !.requests = Append(@, Request(FALSE, <<>>))]
    /\ UNCHANGED <<bb, cache, doc, github, memo, run>>

\* urlopen raises HTTPError: the message is set, the exception raised again.
FetchFails ==
    /\ probe.op = "get_issues"
    /\ probe.pc = "loop"
    /\ probe' = [probe EXCEPT !.pc = "raised",
                              !.result = Raised("HTTPError"),
                              !.requests = Append(@, Request(TRUE, <<>>))]
    /\ UNCHANGED <<bb, cache, doc, github, memo, run>>

NextFetch == FetchPage \/ FetchEmpty \/ FetchFails

\* The loop is not suspended: a turn that can be taken is taken.
SpecFetch == InitFetch /\ [][NextFetch]_vars /\ WF_vars(NextFetch)

PagesBefore(k) == Concat([j \in 1..(k - 1) |-> probe.requests[j].page])

FetchPaging ==
    probe.op = "get_issues" =>
        LET last == Len(probe.requests)
        IN  /\ \A k \in DOMAIN probe.requests :
                  /\ probe.requests[k].start = probe.start + probe.requests[k].had
                  /\ probe.requests[k].had = Len(PagesBefore(k))
                  /\ k < last =>
                        /\ ~probe.requests[k].failed
                        /\ probe.requests[k].page # <<>>
            /\ probe.pc = "loop" => probe.result = NoResult
            /\ probe.pc = "returned" =>
                  /\ ~probe.requests[last].failed
                  /\ probe.requests[last].page = <<>>
                  /\ probe.result = Returned(PagesBefore(last))
                  /\ probe.result.issues =
                         SubSeq(probe.listing, probe.start + 1, Len(probe.listing))
            /\ probe.pc = "raised" =>
                  /\ probe.requests[last].failed
                  /\ probe.result = Raised("HTTPError")

\* C17: get_issues asks for each page at start_id plus the number of issues
\* it has so far; it returns, when the empty page comes, the pages in the
\* order received; a request that fails ends it at once with the exception,
\* without another request and without any issues returned; and it ends.
C17_GetIssuesPaging == []FetchPaging /\ <>(probe.pc # "loop")

C17_Witness_ThreePages ==
    /\ probe.op = "get_issues"
    /\ probe.pc = "returned"
    /\ probe.start = 1
    /\ probe.limit = 2
    /\ Len(probe.requests) = 3
    /\ probe.result = Returned(<<2, 3, 4>>)

\* ------------------------------------------- the push step on its own
\* The comments get_comments can produce from the tracker's comment records.
CookedPool == Range(get_comments([n \in CommentIds |-> RawComment(n)]))

PushCommentSeqs == UNION {[1..k -> CookedPool] : k \in 0..2}

PushUnits ==
    {[id |-> id, issue |-> WithFormatted(RawIssue(id, T_NEW)), comments |-> cs] :
        id \in 1..Len(Statuses), cs \in PushCommentSeqs}

TotalComments(gh) == SeqSum([k \in DOMAIN gh.issues |-> Len(gh.issues[k].comments)])

\* push_issues_to_github: push_issue, then add_comments_to_issue.
push_issues_to_github(gh, mem, unit, dry_run, verbose) ==
    LET pushed == push_issue(gh, mem, unit.issue, dry_run, verbose)
    IN  IF pushed.error # "" THEN pushed
        ELSE [pushed EXCEPT
                 !.gh = add_comments_to_issue(pushed.gh, pushed.github_issue,
                                              unit.comments, dry_run)]

InitPush ==
    /\ bb = <<>>
    /\ cache = <<>>
    /\ doc = NoDoc
    /\ \E labels \in SUBSET {"open"} : github = [EmptyRepo EXCEPT !.labels = labels]
    /\ memo = <<>>
    /\ run = IdleRun
    /\ probe = [op |-> "push", log |-> <<>>]

\* One entry of the log of calls: what was called with what, the repository
\* before and after, and what the call returned.
LogEntry(op, unit, dry_run, before, res) ==
    [op           |-> op,
     unit         |-> unit,
     dry_run      |-> dry_run,
     github_issue |-> res.github_issue,
     error        |-> res.error,
     count        |-> TotalComments(res.gh),
     before       |-> before,
     after        |-> res.gh]

\* push_issues_to_github(github_repo, issue, comments, options) on a unit.
PushUnit ==
    /\ probe.op = "push"
    /\ Len(probe.log) < MaxPushes
    /\ \E unit \in PushUnits, dry_run \in BOOLEAN :
          LET res == push_issues_to_github(github, memo, unit, dry_run, FALSE)
          IN  /\ github' = res.gh
              /\ memo' = res.memo
              /\ probe' = [probe EXCEPT !.log =
                               Append(@, LogEntry("push", unit, dry_run, github, res))]
    /\ UNCHANGED <<bb, cache, doc, run>>

\* add_comments_to_issue(github_issue, bb_comments) on an issue the
\* repository already has.
CommentAgain ==
    /\ probe.op = "push"
    /\ Len(probe.log) < MaxPushes
    /\ \E k \in DOMAIN github.issues, cs \in PushCommentSeqs :
          LET gh2 == add_comments_to_issue(github, k, cs, FALSE)
              res == [gh |-> gh2, github_issue |-> k, error |-> ""]
          IN  /\ github' = gh2
              /\ probe' = [probe EXCEPT !.log =
                               Append(@, LogEntry("comments", [id |-> 0, comments |-> cs],
                                                  FALSE, github, res))]
    /\ UNCHANGED <<bb, cache, doc, memo, run>>

NextPush == PushUnit \/ CommentAgain

SpecPush == InitPush /\ [][NextPush]_vars

\* C1: a unit pushed twice in succession leaves as many comments on the
\* destination as one push of it, and among the destination issues of that
\* title no comment body occurs twice.
BodiesOfTitle(gh, title) ==
    LET mine == {k \in DOMAIN gh.issues : gh.issues[k].title = title}
    IN  [k \in mine |-> gh.issues[k].comments]

NoDuplicateBodies(gh, title) ==
    LET by == BodiesOfTitle(gh, title)
    IN  /\ \A k \in DOMAIN by : NoDup(by[k])
        /\ \A k1, k2 \in DOMAIN by : k1 # k2 => Range(by[k1]) \cap Range(by[k2]) = {}

C1_IdempotentCommentPush ==
    probe.op = "push" =>
        \A k \in 1..(Len(probe.log) - 1) :
            (/\ probe.log[k].op = "push" /\ ~probe.log[k].dry_run
             /\ probe.log[k + 1].op = "push" /\ ~probe.log[k + 1].dry_run
             /\ probe.log[k].unit = probe.log[k + 1].unit
             /\ probe.log[k].error = ""
             /\ NoDup(probe.log[k].unit.comments)) =>
                /\ probe.log[k + 1].count = probe.log[k].count
                /\ NoDuplicateBodies(github, probe.log[k].unit.issue.title)

\* C9: a "resolved" issue is created without labels and closed by one state
\* edit right after creation; an issue of any other status is created with
\* the one label named like its status and gets no state edit.
C9_StatusToLabel ==
    probe.op = "push" =>
        \A k \in DOMAIN probe.log :
            (probe.log[k].op = "push" /\ ~probe.log[k].dry_run /\ probe.log[k].error = "") =>
                LET issue == probe.log[k].unit.issue
                    made  == github.issues[probe.log[k].github_issue]
                IN  IF issue.status = "resolved"
                    THEN made.labels = <<>> /\ made.state = "closed" /\ made.edits = <<"closed">>
                    ELSE /\ made.labels = <<issue.status>>
                         /\ made.state = "open"
                         /\ made.edits = <<>>
                         /\ issue.status \in github.labels

C9_Witness_Both ==
    /\ probe.op = "push"
    /\ \E k1, k2 \in DOMAIN probe.log :
          /\ probe.log[k1].op = "push" /\ ~probe.log[k1].dry_run
          /\ probe.log[k2].op = "push" /\ ~probe.log[k2].dry_run
          /\ probe.log[k1].unit.issue.status = "resolved"
          /\ probe.log[k2].unit.issue.status = "wontfix"
          /\ github.issues[probe.log[k1].github_issue].state = "closed"
          /\ github.issues[probe.log[k2].github_issue].labels = <<"wontfix">>

\* C11: a push in dry-run mode makes no request to the destination (no label
\* lookup or creation, no issue creation, no state edit, no comment listing,
\* no comment creation) and leaves the repository as it was.
C11_DryRunTouchesNothing ==
    probe.op = "push" =>
        \A k \in DOMAIN probe.log :
            probe.log[k].dry_run =>
                /\ probe.log[k].after.calls = probe.log[k].before.calls
                /\ probe.log[k].after = probe.log[k].before
                /\ probe.log[k].github_issue = 0

C11_Witness_DryAfterLive ==
    /\ probe.op = "push"
    /\ \E k \in DOMAIN probe.log :
          /\ probe.log[k].dry_run
          /\ probe.log[k].unit.comments # <<>>
          /\ probe.log[k].unit.issue.status = "open"
          /\ probe.log[k].before.issues # <<>>
          /\ probe.log[k].after = probe.log[k].before

\* C16: in one process each label name is looked up at the destination at
\* most once and created at most once, created only right after its lookup
\* failed; a later request for the name makes no destination call, and the
\* failed lookup is not the error of the push.
CallsOf(gh, method, name) == {i \in DOMAIN gh.calls : gh.calls[i] = <<method, name>>}

LabelsAtCall(i) ==
    LET k == CHOOSE k \in DOMAIN probe.log :
                 /\ Len(probe.log[k].before.calls) < i
                 /\ i <= Len(probe.log[k].after.calls)
    IN  probe.log[k].before.labels

C16_LabelRequestedOnce ==
    probe.op = "push" =>
        /\ \A name \in Range(Statuses) :
              /\ Cardinality(CallsOf(github, "get_label", name)) <= 1
              /\ Cardinality(CallsOf(github, "create_label", name)) <= 1
              /\ \A i \in CallsOf(github, "create_label", name) :
                    /\ i > 1
                    /\ github.calls[i - 1] = <<"get_label", name>>
                    /\ name \notin LabelsAtCall(i)
              /\ \A i \in CallsOf(github, "get_label", name) :
                    name \notin LabelsAtCall(i) =>
                        /\ i < Len(github.calls)
                        /\ github.calls[i + 1] = <<"create_label", name>>
        /\ \A k \in DOMAIN probe.log :
              (probe.log[k].op = "push" /\ ~probe.log[k].dry_run) =>
                  /\ probe.log[k].error = ""
                  /\ probe.log[k].unit.issue.status # "resolved" =>
                        probe.log[k].unit.issue.status \in probe.log[k].after.labels

C16_Witness_SecondRequest ==
    /\ probe.op = "push"
    /\ Len(probe.log) = 2
    /\ \A k \in DOMAIN probe.log :
          /\ probe.log[k].op = "push"
          /\ ~probe.log[k].dry_run
          /\ probe.log[k].unit.issue.status = "wontfix"
    /\ Cardinality(CallsOf(github, "get_label", "wontfix")) = 1
    /\ Cardinality(CallsOf(github, "create_label", "wontfix")) = 1
    /\ Cardinality(CallsOf(github, "create_issue", 3)) = 2

\* The comment bodies a logged call added to its issue, and the bodies the
\* issue had when the call began.
Existing(e) ==
    IF e.github_issue \in DOMAIN e.before.issues
    THEN e.before.issues[e.github_issue].comments
    ELSE <<>>

Posted(e) ==
    LET now == e.after.issues[e.github_issue].comments
    IN  SubSeq(now, Len(Existing(e)) + 1, Len(now))

RECURSIVE Missing(_, _)
Missing(bb_comments, bodies) ==
    IF bb_comments = <<>> THEN <<>>
    ELSE (IF RenderComment(Head(bb_comments)) \in bodies THEN <<>>
          ELSE <<RenderComment(Head(bb_comments))>>) \o Missing(Tail(bb_comments), bodies)

AddedComments(e) == e.op = "comments" \/ (e.op = "push" /\ ~e.dry_run /\ e.error = "")

SecondCallPostsNothing ==
    \A j, k \in DOMAIN probe.log :
        (/\ j < k
         /\ AddedComments(probe.log[j])
         /\ AddedComments(probe.log[k])
         /\ probe.log[j].github_issue = probe.log[k].github_issue
         /\ probe.log[j].unit.comments = probe.log[k].unit.comments) =>
            Posted(probe.log[k]) = <<>>

\* C18 as stated: add_comments_to_issue posts a comment only if its rendered
\* body is neither among the bodies the issue had nor among those posted
\* earlier in the same call; a second call with the same sequence posts
\* nothing.
C18_PostsNoBodyTwice ==
    probe.op = "push" =>
        /\ \A k \in DOMAIN probe.log :
              AddedComments(probe.log[k]) =>
                  LET posted == Posted(probe.log[k])
                  IN  /\ Range(posted) \cap Range(Existing(probe.log[k])) = {}
                      /\ NoDup(posted)
        /\ SecondCallPostsNothing

\* C18 amended: add_comments_to_issue posts, in order, exactly the comments
\* whose rendered body is not among the bodies the issue had when the call
\* began; a second call with the same sequence posts nothing.
C18_PostsWhatWasMissingAtStart ==
    probe.op = "push" =>
        /\ \A k \in DOMAIN probe.log :
              AddedComments(probe.log[k]) =>
                  Posted(probe.log[k]) =
                      Missing(probe.log[k].unit.comments, Range(Existing(probe.log[k])))
        /\ SecondCallPostsNothing

C18_Witness_SecondCall ==
    /\ probe.op = "push"
    /\ Len(probe.log) = 2
    /\ probe.log[1].op = "push"
    /\ probe.log[2].op = "comments"
    /\ probe.log[1].github_issue = probe.log[2].github_issue
    /\ probe.log[1].unit.comments = probe.log[2].unit.comments
    /\ Len(probe.log[1].unit.comments) = 2
    /\ ~NoDup(Posted(probe.log[1]))
    /\ Posted(probe.log[2]) = <<>>

\* ------------------------------------------------------------ the pipeline
\* The tracker: every issue was last updated at T_NEW and has the first
\* ncomments of the comment records.
Tracker(ncomments) ==
    [id \in IssueIds |->
        [issue    |-> RawIssue(id, T_NEW),
         comments |-> {RawComment(n) : n \in 1..ncomments}]]

\* json.dump / json.load of {'issues': [...]}: dicts with string keys, lists,
\* strings and integers come back equal.
json_dump(issues, origin) == [kind |-> "json", issues |-> issues, origin |-> origin]
json_load(d) == d.issues
EmptyDoc == [kind |-> "empty"]

\* The documents a run can be given at the start: none, or an export of
\* every issue (formatted, each with the same comments in the same order)
\* made when the issue had one of the timestamps.
SeedCommentSeqs == UNION {Perms(S) : S \in SUBSET CookedPool}

SeedDocs ==
    {json_dump([id \in IssueIds |->
                   [id       |-> id,
                    issue    |-> WithFormatted(RawIssue(id, ts[id])),
                    comments |-> cs]],
               "seed") :
        ts \in [IssueIds -> TimeStamps], cs \in SeedCommentSeqs}

Init ==
    /\ \E ncomments \in 0..MaxComments : bb = Tracker(ncomments)
    /\ cache = [id \in IssueIds |-> NoDir]
    /\ doc \in SeedDocs \cup {NoDoc}
    /\ github = EmptyRepo
    /\ memo = <<>>
    /\ run = IdleRun
    /\ probe = NoProbe

Live == ~run.options.infile
Replay == run.options.infile
Export == run.options.outfile

\* The command lines: -i and -o name the one document, so not both; -n and
\* -v matter to the push only, and -v changes the state only with -n (it
\* prints the formatted body, which a push without -n reads anyway).
Options ==
    {o \in [infile : BOOLEAN, outfile : BOOLEAN, dry_run : BOOLEAN, verbose : BOOLEAN] :
        /\ ~(o.infile /\ o.outfile)
        /\ o.outfile => ~o.dry_run
        /\ o.verbose => o.dry_run}

\* main up to the first next() of the generator: argparse opens the files
\* (the output file for writing, which empties it); a process starts with an
\* empty memo table.
StartRun ==
    /\ run.pc = "idle"
    /\ run.n < MaxRuns
    /\ \E o \in Options :
          /\ o.infile => doc.kind # "absent"
          /\ run' = [IdleRun EXCEPT !.n = run.n + 1, !.pc = "gen", !.options = o]
          /\ doc' = IF o.outfile THEN EmptyDoc ELSE doc
    /\ memo' = <<>>
    /\ github' = [github EXCEPT !.calls = <<>>]
    /\ UNCHANGED <<bb, cache, probe>>

EndRun(result) == [IdleRun EXCEPT !.n = run.n, !.result = result]

\* The issues in the order the tracker returned them.
InArrivalOrder(issues) == issues

\* sorted(issues, key=local_id)
RECURSIVE InsertById(_, _)
InsertById(sorted, issue) ==
    IF sorted = <<>> THEN <<issue>>
    ELSE IF issue.local_id < Head(sorted).local_id
         THEN <<issue>> \o sorted
         ELSE <<Head(sorted)>> \o InsertById(Tail(sorted), issue)

RECURSIVE SortedById(_)
SortedById(issues) ==
    IF issues = <<>> THEN <<>>
    ELSE InsertById(SortedById(SubSeq(issues, 1, Len(issues) - 1)), issues[Len(issues)])

\* iter_issue_from_bb, first lines: get_issues returns the issues in the
\* order of the tracker; they are sorted by local_id.
GetIssues ==
    /\ run.pc = "gen"
    /\ Live
    /\ \E order \in Perms(DOMAIN bb) :
          LET issues == [k \in DOMAIN order |-> bb[order[k]].issue]
          IN  run' = [run EXCEPT !.pc = "next", !.todo = SortedById(issues)]
    /\ UNCHANGED <<bb, cache, doc, github, memo, probe>>

\* iter_issue_from_bb, the loop head: cache.changed(issue).
LiveChanged ==
    /\ run.pc = "next"
    /\ Live
    /\ run.todo # <<>>
    /\ LET issue == Head(run.todo)
           res   == IssueCache_changed(cache[issue.local_id], issue)
           unit  == [id |-> issue.local_id, issue |-> issue, comments |-> <<>>]
       IN  \/ /\ res \notin {"True", "False"}
              /\ run' = EndRun(res)
           \/ /\ res = "True"
              /\ run' = [run EXCEPT !.pc = "fetch", !.todo = Tail(@), !.unit = unit]
           \/ /\ res = "False"
              /\ run' = [run EXCEPT !.pc = "reuse", !.todo = Tail(@), !.unit = unit]
    /\ UNCHANGED <<bb, cache, doc, github, memo, probe>>

\* The changed branch: format the body and fetch the comments, which the
\* tracker returns in any order.
LiveFetch ==
    /\ run.pc = "fetch"
    /\ \E result \in Perms(bb[run.unit.id].comments) :
          run' = [run EXCEPT !.pc = "store",
                             !.trace = Append(@, <<"fetch", run.unit.id>>),
                             !.unit.issue = WithFormatted(@),
                             !.unit.comments = get_comments(result)]
    /\ UNCHANGED <<bb, cache, doc, github, memo, probe>>

\* cache.comments = comments
LiveStore ==
    /\ run.pc = "store"
    /\ cache' = [cache EXCEPT ![run.unit.id] = IssueCache_set_comments(@, run.unit.comments)]
    /\ run' = [run EXCEPT !.pc = "yield", !.from = "fetch",
                          !.trace = Append(@, <<"store", run.unit.id>>)]
    /\ UNCHANGED <<bb, doc, github, memo, probe>>

\* The unchanged branch: comments = cache.comments, in the order of os.listdir.
LiveReuse ==
    /\ run.pc = "reuse"
    /\ \E listing \in Perms(CommentFiles(cache[run.unit.id])) :
          run' = [run EXCEPT
                     !.pc = "yield",
                     !.from = "cache",
                     !.trace = Append(@, <<"reuse", run.unit.id>>),
                     !.unit.comments =
                         [k \in DOMAIN listing |->
                             IssueCache_load(cache[run.unit.id], listing[k])]]
    /\ UNCHANGED <<bb, cache, doc, github, memo, probe>>

\* iter_issue_from_file, first line: json.load(infile).
FileLoad ==
    /\ run.pc = "gen"
    /\ Replay
    /\ \/ /\ doc.kind = "json"
          /\ run' = [run EXCEPT !.pc = "next", !.todo = json_load(doc)]
       \/ /\ doc.kind = "empty"
          /\ run' = EndRun("ValueError")
    /\ UNCHANGED <<bb, cache, doc, github, memo, probe>>

\* iter_issue_from_file, the loop body: write the cache, yield the record.
FileNext ==
    /\ run.pc = "next"
    /\ Replay
    /\ run.todo # <<>>
    /\ LET issue  == Head(run.todo)
           raised == IssueCache_save_raises(cache[issue.id])
       IN  IF raised # ""
           THEN /\ cache' = cache
                /\ run' = EndRun(raised)
           ELSE /\ cache' = [cache EXCEPT ![issue.id] =
                                IssueCache_set_comments(IssueCache_set_issue(@, issue.issue),
                                                        issue.comments)]
                /\ run' = [run EXCEPT !.pc = "yield", !.from = "file",
                                      !.todo = Tail(@), !.unit = issue]
    /\ UNCHANGED <<bb, doc, github, memo, probe>>

\* write_issues_to_file: list(issues) takes the next unit.
Collect ==
    /\ run.pc = "yield"
    /\ Export
    /\ run' = [run EXCEPT !.pc = "next", !.out = Append(@, run.unit), !.i = @ + 1]
    /\ UNCHANGED <<bb, cache, doc, github, memo, probe>>

\* The unit is kept for later instead of being pushed now.
PushIssueAfterAll ==
    /\ run.pc = "yield"
    /\ ~Export
    /\ run' = [run EXCEPT !.pc = "next", !.out = Append(@, run.unit)]
    /\ UNCHANGED <<bb, cache, doc, github, memo, probe>>

\* push_issues_to_github, first line: push_issue.
PushIssue ==
    /\ run.pc = "yield"
    /\ ~Export
    /\ LET res == push_issue(github, memo, run.unit.issue,
                             run.options.dry_run, run.options.verbose)
       IN  /\ github' = res.gh
           /\ memo' = res.memo
           /\ \/ /\ res.error # ""
                 /\ run' = EndRun(res.error)
              \/ /\ res.error = ""
                 /\ run' = [run EXCEPT !.pc = "comments", !.github_issue = res.github_issue,
                                       !.trace = Append(@, <<"create", run.unit.id>>)]
    /\ UNCHANGED <<bb, cache, doc, probe>>

\* push_issues_to_github, second line: add_comments_to_issue.
AddComments ==
    /\ run.pc = "comments"
    /\ github' = add_comments_to_issue(github, run.github_issue, run.unit.comments,
                                       run.options.dry_run)
    /\ run' = [run EXCEPT !.pc = "next", !.i = @ + 1,
                          !.trace = Append(@, <<"comments", run.unit.id>>)]
    /\ UNCHANGED <<bb, cache, doc, memo, probe>>

\* The generator is exhausted: the export is written, or the count printed.
Finish ==
    /\ run.pc = "next"
    /\ run.todo = <<>>
    /\ run' = EndRun("done")
    /\ doc' = IF Export THEN json_dump(run.out, "export") ELSE doc
    /\ UNCHANGED <<bb, cache, github, memo, probe>>

\* The process is killed, or a request to a service fails, at any point.
Abort ==
    /\ run.pc # "idle"
    /\ run' = EndRun("aborted")
    /\ UNCHANGED <<bb, cache, doc, github, memo, probe>>

Next ==
    \/ StartRun
    \/ GetIssues
    \/ LiveChanged
    \/ LiveFetch
    \/ LiveStore
    \/ LiveReuse
    \/ FileLoad
    \/ FileNext
    \/ Collect
    \/ PushIssue
    \/ AddComments
    \/ Finish
    \/ Abort

Spec == Init /\ [][Next]_vars

\* ------------------------------------------- a live push on an empty repository
\* The tracker after some of its issues were deleted: the issues of `present`.
TrackerOf(present, ncomments) == [id \in present |-> Tracker(ncomments)[id]]

InitLive ==
    /\ \E present \in SUBSET IssueIds \ {{}}, ncomments \in 0..MaxComments :
          bb = TrackerOf(present, ncomments)
    /\ cache = [id \in IssueIds |-> NoDir]
    /\ doc \in SeedDocs \cup {NoDoc}
    /\ github = EmptyRepo
    /\ memo = <<>>
    /\ run = IdleRun
    /\ probe = NoProbe

\* migrate.py -n -i document: the replay that fills the cache and leaves the
\* repository alone.
StartReplayDry ==
    /\ run.pc = "idle"
    /\ run.n = 0
    /\ doc.kind # "absent"
    /\ run' = [IdleRun EXCEPT !.n = run.n + 1, !.pc = "gen",
                              !.options = [NoOptions EXCEPT !.infile = TRUE, !.dry_run = TRUE]]
    /\ memo' = <<>>
    /\ github' = [github EXCEPT !.calls = <<>>]
    /\ UNCHANGED <<bb, cache, doc, probe>>

\* migrate.py against a repository without issues.
StartLivePush ==
    /\ run.pc = "idle"
    /\ github.issues = <<>>
    /\ run.n < MaxRuns
    /\ run' = [IdleRun EXCEPT !.n = run.n + 1, !.pc = "gen", !.options = NoOptions]
    /\ memo' = <<>>
    /\ github' = [github EXCEPT !.calls = <<>>]
    /\ UNCHANGED <<bb, cache, doc, probe>>

NextLive ==
    \/ StartReplayDry
    \/ StartLivePush
    \/ GetIssues
    \/ LiveChanged
    \/ LiveFetch
    \/ LiveStore
    \/ LiveReuse
    \/ FileLoad
    \/ FileNext
    \/ PushIssue
    \/ AddComments
    \/ Finish
    \/ Abort

SpecLive == InitLive /\ [][NextLive]_vars

\* The source number of a destination issue: the title of an issue is its
\* local_id.
SourceNumber(made) == made.title

\* C12 as stated: on a repository that had no issues, a live push run gives
\* every issue it creates the number the issue has at the source, whatever
\* the order in which the tracker returns the issues.
C12_NumbersLineUp ==
    \A k \in DOMAIN github.issues : SourceNumber(github.issues[k]) = k

\* C12 amended: the same, for a tracker whose issues are numbered 1..n
\* without a gap.
C12_NumbersLineUpWithoutGaps ==
    (DOMAIN bb = 1..Cardinality(DOMAIN bb)) => C12_NumbersLineUp

C12_Witness_AllCreated ==
    /\ DOMAIN bb = IssueIds
    /\ Len(github.issues) = NumIssues
    /\ \A k \in IssueIds : SourceNumber(github.issues[k]) = k

\* Issue id was pushed in full before position p of the trace.
Pushed(id, p) == \E q \in 1..(p - 1) : run.trace[q] = <<"comments", id>>

\* C19: a live push run takes the issues one at a time in ascending order
\* of their numbers: comment fetch, cache write, creation and comment posting
\* of an issue are over before the comment fetch or cache write of the next;
\* so the cache was written, in this run, only for issues pushed in full and
\* at most the one in progress.
C19_OneIssueAtATime ==
    (run.pc # "idle" /\ Live /\ ~Export) =>
        /\ \A p, q \in DOMAIN run.trace :
              (q < p /\ run.trace[q][2] # run.trace[p][2]) =>
                  /\ run.trace[q][2] < run.trace[p][2]
                  /\ Pushed(run.trace[q][2], p)
        /\ \A p \in DOMAIN run.trace :
              run.trace[p][1] = "store" =>
                  \/ Pushed(run.trace[p][2], Len(run.trace) + 1)
                  \/ /\ run.unit.id = run.trace[p][2]
                     /\ run.pc \in {"yield", "comments"}
        /\ \A p \in DOMAIN run.trace :
              run.trace[p][1] = "comments" =>
                  /\ p > 3
                  /\ run.trace[p - 3] = <<"fetch", run.trace[p][2]>>
                  /\ run.trace[p - 2] = <<"store", run.trace[p][2]>>
                  /\ run.trace[p - 1] = <<"create", run.trace[p][2]>>

C19_Witness_SecondAfterFirst ==
    /\ run.pc = "yield"
    /\ Live
    /\ run.trace = <<<<"fetch", 1>>, <<"store", 1>>, <<"create", 1>>, <<"comments", 1>>,
                     <<"fetch", 2>>, <<"store", 2>>>>

\* ------------------------------------------------- the pipeline, cache off
\* iter_issue_from_bb / iter_issue_from_file with cache_dir None: every
\* IssueCache has base_dir None.
InitNoCache ==
    /\ \E ncomments \in 0..MaxComments : bb = Tracker(ncomments)
    /\ cache = [id \in IssueIds |-> NonePath]
    /\ doc \in SeedDocs \cup {NoDoc}
    /\ github = EmptyRepo
    /\ memo = <<>>
    /\ run = IdleRun
    /\ probe = NoProbe

NextNoCache ==
    \/ StartRun
    \/ GetIssues
    \/ LiveChanged
    \/ FileLoad
    \/ FileNext
    \/ Abort

SpecNoCache == InitNoCache /\ [][NextNoCache]_vars

\* C15: without a cache directory every IssueCache operation does nothing,
\* returns None or the empty list and never raises, so no run of either
\* pipeline ends in an exception raised by the cache.
C15_DisabledCacheNeverFails ==
    (\A id \in IssueIds : is_None(cache[id])) =>
        run.result \notin {"TypeError", "IOError"}

\* ------------------------------------------------------ pipeline properties
IssuesOfTitle(title) == {k \in DOMAIN github.issues : github.issues[k].title = title}

\* C2: however often the pipeline is run against the same destination, and
\* wherever an earlier run stopped, every source issue has at most one
\* destination issue.
C2_NoDuplicateIssues ==
    \A id \in IssueIds : Cardinality(IssuesOfTitle(id)) <= 1

Ascending(comments) ==
    \A i, j \in DOMAIN comments :
        i < j => TupleLess(comments[i].created_at, comments[j].created_at)

\* C3: the comments of every destination issue were created in strictly
\* ascending order of their creation timestamps, whichever path (fetch,
\* cache, export document) produced the comment sequence.
C3_CommentsAscending ==
    \A k \in DOMAIN github.issues : Ascending(github.issues[k].comments)

\* C5: when the live pipeline comes to an issue without a cache entry,
\* IssueCache.changed answers true (it does not fail), so the comments of the
\* issue are fetched.
C5_ChangedTrueWithoutEntry ==
    (/\ run.pc = "next"
     /\ Live
     /\ run.todo # <<>>
     /\ IssueCache_load_fails(cache[Head(run.todo).local_id], ISSUE_FILE_NAME)) =>
        IssueCache_changed(cache[Head(run.todo).local_id], Head(run.todo)) = "True"

\* C6: when the live pipeline yields an issue it fetched anew, the issue
\* snapshot of the cache entry has the last-modified timestamp of the
\* incoming issue.
C6_SnapshotFollowsFetch ==
    (run.pc = "yield" /\ run.from = "fetch") =>
        /\ ~IssueCache_load_fails(cache[run.unit.id], ISSUE_FILE_NAME)
        /\ IssueCache_issue(cache[run.unit.id]).utc_last_updated =
               run.unit.issue.utc_last_updated

\* C7: every unit the live pipeline yields carries a formatted body; the unit
\* of an unchanged issue carries the body and the comment set of the cache.
C7_YieldedUnitHasBody ==
    (run.pc = "yield" /\ Live) =>
        /\ "formatted" \in DOMAIN run.unit.issue
        /\ run.from = "cache" =>
              /\ run.unit.issue.formatted = IssueCache_issue(cache[run.unit.id]).formatted
              /\ Range(run.unit.comments) = IssueCache_comments(cache[run.unit.id])

\* C8: right after the comment set of a cache entry was replaced, the cache
\* reads back exactly the comments written.
C8_ReplacedCommentsReadBack ==
    (run.pc = "yield" /\ run.from \in {"fetch", "file"}) =>
        IssueCache_comments(cache[run.unit.id]) = Range(run.unit.comments)

\* C10: the replay of a document written by write_issues_to_file yields the
\* units of the document in their order, and leaves in the cache, for each,
\* the issue snapshot and the comment set of the exported record.
C10_ExportReplayFidelity ==
    (/\ run.pc = "yield"
     /\ run.from = "file"
     /\ doc.kind = "json"
     /\ doc.origin = "export") =>
        LET exported == json_load(doc)[Len(json_load(doc)) - Len(run.todo)]
        IN  /\ run.unit = exported
            /\ IssueCache_issue(cache[run.unit.id]) = exported.issue
            /\ IssueCache_comments(cache[run.unit.id]) = Range(exported.comments)

====
